---------------------------- MODULE Spec2Model ----------------------------
(***************************************************************************)
(* The AI SQL query assistant of src/streamlit_app.py as a state machine.  *)
(*                                                                         *)
(* Streamlit runs the whole script once per user interaction; each action  *)
(* below is one such run, from the event that triggers it to the end of    *)
(* the script (an st.rerun() included).  The state is st.session_state,    *)
(* the values the widgets keep between runs, the process-wide cache of the *)
(* database connection and what the last run put on the page.              *)
(*                                                                         *)
(* Texts are sequences of characters.  A character is a one-character      *)
(* string, except the three below that a TLA+ string cannot hold or that   *)
(* read badly: BT is the backtick, NL the line feed, SP the space.         *)
(***************************************************************************)
EXTENDS Integers, Sequences, FiniteSets, TLC

VARIABLES
    session_state,   \* st.session_state: a record holding the keys set so far
    user_question,   \* value of the question st.text_area
    edited_sql,      \* what the user typed in the SQL st.text_area, None while it shows its default
    conn,            \* st.cache_resource entry of get_db_connection
    generated_for,   \* history variable: the question given to the LLM call that produced generated_sql
    password,        \* history variable: the password submitted with the last Login click
    event,           \* the interaction that triggered the last script run
    screen,          \* "login" or "app": what the last run rendered
    messages,        \* st.error / st.warning / st.success boxes of the last run
    llm_calls,       \* model.generate_content calls made by the last run
    db_calls,        \* pd.read_sql_query calls made by the last run
    response_text,   \* response.text received by the last run, None if none
    sql_query,       \* value generate_sql_with_gpt returned in the last run, None if none
    df,              \* len(df) of the frame run_query returned in the last run, NoDf if None
    history_view,    \* the entries the last run listed under "Query History", top first
    inputs           \* what the user and the two services may supply in this session

vars == <<session_state, user_question, edited_sql, conn, generated_for, password,
          event, screen, messages, llm_calls, db_calls, response_text, sql_query,
          df, history_view, inputs>>

----------------------------------------------------------------------------
(* Characters and texts *)

BT == "bt"
NL == "nl"
SP == " "

\* Python's None for a text-valued variable; no text is equal to it.
None == <<"None">>

\* run_query returned None: there is no frame to take len() of.
NoDf == -1

Min(a, b) == IF a < b THEN a ELSE b

\* str.isspace / the regex class \s
IsSpace(c) == c \in {SP, NL}

\* re.IGNORECASE folding of one character
Lower(c) ==
    CASE c = "S" -> "s"
      [] c = "Q" -> "q"
      [] c = "L" -> "l"
      [] OTHER -> c

\* number of leading characters of t to drop for str.lstrip
RECURSIVE LeadingSpace(_)
LeadingSpace(t) ==
    IF t = <<>> \/ ~IsSpace(Head(t)) THEN 0 ELSE 1 + LeadingSpace(Tail(t))

RECURSIVE TrailingSpace(_)
TrailingSpace(t) ==
    IF t = <<>> \/ ~IsSpace(t[Len(t)]) THEN 0
    ELSE 1 + TrailingSpace(SubSeq(t, 1, Len(t) - 1))

\* str.strip()
Strip(t) ==
    LET a == LeadingSpace(t)
    IN  IF a = Len(t) THEN <<>>
        ELSE SubSeq(t, a + 1, Len(t) - TrailingSpace(t))

\* Python truthiness of an optional text: None and "" are falsy.
Truthy(t) == t # None /\ t # <<>>

----------------------------------------------------------------------------
(* extract_sql_from_response: re.sub(r"^```sql\s*|\s*```$", "", text,       *)
(* flags=re.IGNORECASE | re.MULTILINE).strip()                             *)

OpenFence == <<BT, BT, BT, "s", "q", "l">>
CloseFence == <<BT, BT, BT>>

\* the literal lit occurs in t at position i (compared case-insensitively)
LiteralAt(t, i, lit) ==
    /\ i >= 1
    /\ i + Len(lit) - 1 <= Len(t)
    /\ \A k \in 1..Len(lit) : Lower(t[i + k - 1]) = lit[k]

\* ^ under re.MULTILINE: at the start of the text or just after a line feed
AtLineStart(t, i) == i = 1 \/ t[i - 1] = NL

\* $ under re.MULTILINE: at the end of the text or just before a line feed
AtLineEnd(t, i) == i = Len(t) + 1 \/ t[i] = NL

\* length of the greedy \s* starting at position i
RECURSIVE SpaceRun(_, _)
SpaceRun(t, i) ==
    IF i > Len(t) \/ ~IsSpace(t[i]) THEN 0 ELSE 1 + SpaceRun(t, i + 1)

\* length of the match of the pattern at position i, 0 if it does not match there.
\* The first alternative is tried first; the whitespace of the second cannot be
\* given back, because the character after it has to be a backtick.
MatchLen(t, i) ==
    IF AtLineStart(t, i) /\ LiteralAt(t, i, OpenFence)
    THEN Len(OpenFence) + SpaceRun(t, i + Len(OpenFence))
    ELSE LET w == SpaceRun(t, i)
         IN  IF LiteralAt(t, i + w, CloseFence) /\ AtLineEnd(t, i + w + Len(CloseFence))
             THEN w + Len(CloseFence)
             ELSE 0

\* re.sub(pattern, "", t): scan left to right, drop every match, keep the rest
RECURSIVE SubFences(_, _)
SubFences(t, i) ==
    IF i > Len(t) THEN <<>>
    ELSE LET m == MatchLen(t, i)
         IN  IF m > 0 THEN SubFences(t, i + m)
             ELSE <<t[i]>> \o SubFences(t, i + 1)

extract_sql_from_response(text) == Strip(SubFences(text, 1))


----------------------------------------------------------------------------
(* Secrets and the password check *)

\* bcrypt.hashpw: the hash is not the password; equal passwords hash alike
Hash(pw) == <<"$2b$", pw>>

\* st.secrets["HASHED_PASSWORD"]: the hash of the operator's password
HASHED_PASSWORD == Hash("secret123")

\* a check that accepts every password
checkpwAny(pw, hashed) == TRUE

\* bcrypt.checkpw(password, hashed)
checkpw(pw, hashed) == Hash(pw) = hashed

----------------------------------------------------------------------------
(* st.session_state *)

HasKey(ss, k) == k \in DOMAIN ss

\* require_login's test: the script goes on past it only when this holds
LoggedIn(ss) == HasKey(ss, "logged_in") /\ ss.logged_in

\* main: the three "if key not in st.session_state" initialisations
SessionDefaults(ss) ==
    LET a == IF HasKey(ss, "query_history") THEN ss ELSE ss @@ ("query_history" :> <<>>)
        b == IF HasKey(a, "generated_sql") THEN a ELSE a @@ ("generated_sql" :> None)
    IN  IF HasKey(b, "current_question") THEN b ELSE b @@ ("current_question" :> None)

\* the session values as the page reads them (an absent key reads as its default)
logged_in == LoggedIn(session_state)
query_history == SessionDefaults(session_state).query_history
generated_sql == SessionDefaults(session_state).generated_sql
current_question == SessionDefaults(session_state).current_question

----------------------------------------------------------------------------
(* Pieces of main() *)

\* a clear that resets the generated SQL and leaves the list
ClearHistoryKeepsList(ss) ==
    [ss EXCEPT !.generated_sql = None, !.current_question = None]

\* "Clear History": the three assignments under the button
ClearHistory(ss) ==
    [ss EXCEPT !.query_history = <<>>, !.generated_sql = None, !.current_question = None]

\* the comparison left out: a changed question is never noticed
QuestionChangedNever(current, question) == FALSE

\* main: "if st.session_state.current_question != user_question"
QuestionChanged(current, question) == current # question

\* main: "if generate_button and user_question": an empty text is falsy
QuestionGiven(question) == question # <<>>

\* main: the stale SQL is dropped before the LLM is asked
DropStale(ss, question) ==
    IF QuestionChanged(ss.current_question, question)
    THEN [ss EXCEPT !.generated_sql = None, !.current_question = None]
    ELSE ss

\* main: "if sql_query:" records the generated pair
RecordGenerated(ss, question, sql) ==
    IF Truthy(sql)
    THEN [ss EXCEPT !.generated_sql = sql, !.current_question = question]
    ELSE ss

\* generate_sql_with_gpt: outcome is "raise" (generate_content or response.text
\* raised) or the response text
LlmRaise == <<"raise">>

GenerateMessages(outcome) ==
    IF outcome = LlmRaise THEN {"gemini_error"} ELSE {}

generate_sql_with_gpt(outcome) ==
    IF outcome = LlmRaise THEN None ELSE extract_sql_from_response(outcome)

\* the SQL st.text_area: its value is what the user typed, else its default
EditedSqlValue(ss, edit) == IF edit = None THEN ss.generated_sql ELSE edit

\* The SQL text area has no key: its identity includes its default value, and
\* Streamlit forgets a widget that a run did not render.  The typed text
\* survives a run only if the area is rendered again with the same default.
KeepEdit(before, after, edit) ==
    IF Truthy(after.generated_sql) /\ after.generated_sql = before.generated_sql
    THEN edit ELSE None

\* main: the history entry appended by a successful Run Query
HistoryEntry(question, sql, rows) == [question |-> question, sql |-> sql, rows |-> rows]

AppendEntry(history, entry) == Append(history, entry)

\* the None test left out: a failed query is recorded like a successful one
QuerySucceededAlways(frame) == TRUE

\* main: "if df is not None"
QuerySucceeded(frame) == frame # NoDf

\* number of history entries listed: the slice [-5:]
HistoryShown == 5

Reverse(s) == [i \in 1..Len(s) |-> s[Len(s) - i + 1]]

\* the last entries listed oldest first
RenderHistoryOldestFirst(history) ==
    LET n == Len(history)
    IN  SubSeq(history, n - Min(HistoryShown, n) + 1, n)

\* main: reversed(st.session_state.query_history[-5:])
RenderHistory(history) ==
    LET n == Len(history)
    IN  Reverse(SubSeq(history, n - Min(HistoryShown, n) + 1, n))

----------------------------------------------------------------------------
(* Database *)

\* get_db_connection under st.cache_resource: the first call decides, and its
\* result (a connection or None) is what every later call returns
get_db_connection(cache, connects) ==
    IF cache = "uncached" THEN (IF connects THEN "open" ELSE "none") ELSE cache

\* pd.read_sql_query: result is NoDf when it raised, else the number of rows.
\* run_query: None without a connection or when the query raised, else the frame.
run_query(connection, result) ==
    IF connection = "none" THEN NoDf ELSE result

\* the st.error of get_db_connection (replayed from the cache) or of run_query
RunQueryMessages(connection, result) ==
    IF connection = "none" THEN {"connect_error"}
    ELSE IF result = NoDf THEN {"query_error"} ELSE {}

\* what psycopg2.connect may do in a run: it is called only while nothing is cached
ConnectOutcomes(cache) == IF cache = "uncached" THEN BOOLEAN ELSE {TRUE}

RunQueryCalls(connection) == IF connection = "none" THEN 0 ELSE 1


----------------------------------------------------------------------------
(* Bounds and the inputs of a session *)

\* longest query_history of a review session
MaxHistory == 2

\* longest query_history of a session that only fills the history
MaxLongHistory == 6

Fenced(body) == OpenFence \o <<NL>> \o body \o <<NL>> \o CloseFence

\* A review session: questions with and without surrounding whitespace, an LLM
\* that answers with fenced SQL or with an empty fenced block, a user who edits
\* the SQL, and queries returning two rows.
ReviewInputs ==
    [ questions   |-> { <<>>, <<SP>>, <<"a">>, <<SP, "b">> },
      responses   |-> { Fenced(<<"A">>), Fenced(<<>>) },
      edits       |-> { <<"E">> },
      rows        |-> { 2 },
      passwords   |-> { "", "secret123", "wrong" },
      max_history |-> MaxHistory ]

\* A session that fills the history: one question, one answer, one edit.
HistoryInputs ==
    [ questions   |-> { <<"a">> },
      responses   |-> { Fenced(<<"A">>) },
      edits       |-> { <<"E">> },
      rows        |-> { 2 },
      passwords   |-> { "secret123" },
      max_history |-> MaxLongHistory ]

\* LLM responses around a fenced block: text before the opening fence, on its
\* line or on a line of its own, the tag in either case, and text after the
\* closing fence
Prefixes == { <<>>, <<"x", NL>>, <<"x", SP>>, <<NL>> }
Opens == { OpenFence, <<BT, BT, BT, "S", "Q", "L">> }
Bodies == { <<NL, "A", NL>>, <<SP, "A", SP, "B", NL>>, <<"A">>, <<NL>> }
Suffixes == { <<>>, <<NL>>, <<NL, "x">>, <<SP, "x">> }

FencedTexts ==
    { p \o o \o b \o CloseFence \o s :
        p \in Prefixes, o \in Opens, b \in Bodies, s \in Suffixes }

UnfencedTexts == { <<"A">>, <<SP, "A", SP, "B", NL>>, <<SP>> }

ResponseTexts == FencedTexts \cup UnfencedTexts

----------------------------------------------------------------------------
(* Initial state: the page after the first script run of a new session, which
   stopped at the login form *)

InitWith(given) ==
    /\ session_state = <<>>
    /\ user_question = <<>>
    /\ edited_sql = None
    /\ conn = "uncached"
    /\ generated_for = None
    /\ password = ""
    /\ event = "start"
    /\ screen = "login"
    /\ messages = {}
    /\ llm_calls = 0
    /\ db_calls = 0
    /\ response_text = None
    /\ sql_query = None
    /\ df = NoDf
    /\ history_view = <<>>
    /\ inputs = given

Init == InitWith(ReviewInputs)

----------------------------------------------------------------------------
(* Script runs *)

\* a gate that lets every run through
require_loginOpen(ss) == TRUE

\* require_login: TRUE when the script goes on to the application page
require_login(ss) == LoggedIn(ss)

\* st.session_state.logged_in = value
SetLoggedIn(ss, value) ==
    IF HasKey(ss, "logged_in") THEN [ss EXCEPT !.logged_in = value]
    ELSE ss @@ ("logged_in" :> value)

\* what a run that reached the end of main() leaves on the page
AppPage(ev, ss, msgs, llm, db, resp, sq, frame) ==
    /\ event' = ev
    /\ screen' = "app"
    /\ messages' = msgs
    /\ llm_calls' = llm
    /\ db_calls' = db
    /\ response_text' = resp
    /\ sql_query' = sq
    /\ df' = frame
    /\ history_view' = RenderHistory(ss.query_history)

\* what a run stopped by require_login leaves on the page; the widgets of the
\* application page are not rendered and lose their values
LoginPage(ev, msgs) ==
    /\ event' = ev
    /\ screen' = "login"
    /\ messages' = msgs
    /\ llm_calls' = 0
    /\ db_calls' = 0
    /\ response_text' = None
    /\ sql_query' = None
    /\ df' = NoDf
    /\ history_view' = <<>>
    /\ user_question' = <<>>
    /\ edited_sql' = None

\* login_screen: the messages of a Login click
LoginMessages(pw, raises) ==
    IF pw = "" THEN {"enter_password"}
    ELSE IF raises THEN {"auth_error"}
    ELSE IF checkpw(pw, HASHED_PASSWORD) THEN {}
    ELSE {"incorrect_password"}

\* login_screen: the Login click is accepted.  raises: bcrypt.checkpw raised.
LoginAccepted(pw, raises) == pw # "" /\ ~raises /\ checkpw(pw, HASHED_PASSWORD)

\* The Login button.  An accepted login sets logged_in and reruns the script,
\* which then renders the application page with no button pressed.
ClickLogin ==
    /\ ~require_login(session_state)
    /\ \E pw \in inputs.passwords, raises \in BOOLEAN :
        /\ password' = pw
        /\ IF LoginAccepted(pw, raises)
           THEN LET ss == SessionDefaults(SetLoggedIn(session_state, TRUE))
                IN  /\ session_state' = ss
                    /\ user_question' = <<>>
                    /\ edited_sql' = None
                    /\ AppPage("login", ss, {}, 0, 0, None, None, NoDf)
           ELSE /\ session_state' = session_state
                /\ LoginPage("login", LoginMessages(pw, raises))
        /\ UNCHANGED <<conn, generated_for, inputs>>

\* The Logout button: logged_in = False and st.rerun(), which stops at the login form.
ClickLogout ==
    /\ require_login(session_state)
    /\ session_state' = SetLoggedIn(session_state, FALSE)
    /\ LoginPage("logout", {})
    /\ UNCHANGED <<conn, generated_for, password, inputs>>

\* The user changes the question text; the script runs with no button pressed.
TypeQuestion ==
    /\ require_login(session_state)
    /\ \E q \in inputs.questions \ {user_question} :
        LET ss == SessionDefaults(session_state)
        IN  /\ session_state' = ss
            /\ user_question' = q
            /\ edited_sql' = KeepEdit(ss, ss, edited_sql)
            /\ AppPage("type", ss, {}, 0, 0, None, None, NoDf)
    /\ UNCHANGED <<conn, generated_for, password, inputs>>

\* The user changes the SQL text, shown only while generated_sql is truthy.
EditSql ==
    /\ require_login(session_state)
    /\ LET ss == SessionDefaults(session_state)
       IN  /\ Truthy(ss.generated_sql)
           /\ \E s \in inputs.edits \ {EditedSqlValue(ss, edited_sql)} :
                /\ session_state' = ss
                /\ edited_sql' = s
                /\ AppPage("edit", ss, {}, 0, 0, None, None, NoDf)
    /\ UNCHANGED <<user_question, conn, generated_for, password, inputs>>

\* The Generate SQL button.
ClickGenerate ==
    /\ require_login(session_state)
    /\ \E outcome \in {LlmRaise} \cup inputs.responses :
        LET ss0 == SessionDefaults(session_state)
            given == QuestionGiven(user_question)
            question == Strip(user_question)
            ss1 == IF given THEN DropStale(ss0, question) ELSE ss0
            sq == IF given THEN generate_sql_with_gpt(outcome) ELSE None
            ss2 == IF given THEN RecordGenerated(ss1, question, sq) ELSE ss1
        IN  /\ session_state' = ss2
            /\ generated_for' = IF ~given THEN generated_for
                                ELSE IF Truthy(sq) THEN question
                                ELSE IF Truthy(ss1.generated_sql) THEN generated_for
                                ELSE None
            /\ edited_sql' = KeepEdit(ss0, ss2, edited_sql)
            /\ AppPage("generate", ss2,
                       IF given THEN GenerateMessages(outcome) ELSE {},
                       IF given THEN 1 ELSE 0, 0,
                       IF given /\ outcome # LlmRaise THEN outcome ELSE None,
                       sq, NoDf)
    /\ UNCHANGED <<user_question, conn, password, inputs>>

\* The Clear History button.
ClickClearHistory ==
    /\ require_login(session_state)
    /\ LET ss0 == SessionDefaults(session_state)
           ss1 == ClearHistory(ss0)
       IN  /\ session_state' = ss1
           /\ generated_for' = None
           /\ edited_sql' = KeepEdit(ss0, ss1, edited_sql)
           /\ AppPage("clear", ss1, {}, 0, 0, None, None, NoDf)
    /\ UNCHANGED <<user_question, conn, password, inputs>>

\* The Run Query button, shown only while generated_sql is truthy.
\* connects: psycopg2.connect succeeds, should this run be the one to call it.
ClickRunQuery ==
    /\ require_login(session_state)
    /\ LET ss0 == SessionDefaults(session_state)
       IN  /\ Truthy(ss0.generated_sql)
           /\ \E connects \in ConnectOutcomes(conn), result \in {NoDf} \cup inputs.rows :
                LET c == get_db_connection(conn, connects)
                    frame == run_query(c, result)
                    sql == EditedSqlValue(ss0, edited_sql)
                    ss1 == IF QuerySucceeded(frame)
                           THEN [ss0 EXCEPT !.query_history =
                                   AppendEntry(@, HistoryEntry(user_question, sql, frame))]
                           ELSE ss0
                IN  /\ QuerySucceeded(frame) => Len(ss0.query_history) < inputs.max_history
                    /\ session_state' = ss1
                    /\ conn' = c
                    /\ edited_sql' = KeepEdit(ss0, ss1, edited_sql)
                    /\ AppPage("run", ss1,
                               RunQueryMessages(c, result)
                                 \cup (IF QuerySucceeded(frame) THEN {"query_success"} ELSE {}),
                               0, RunQueryCalls(c), None, None, frame)
    /\ UNCHANGED <<user_question, generated_for, password, inputs>>

\* A "Re-run this query" button of the history list.
ClickRerun ==
    /\ require_login(session_state)
    /\ \E idx \in 1..Len(history_view), connects \in ConnectOutcomes(conn),
          result \in {NoDf} \cup inputs.rows :
        \* the entry clicked is item idx of the list this run renders again;
        \* run_query(item["sql"]) is given that text, and the database decides
        LET ss == SessionDefaults(session_state)
            c == get_db_connection(conn, connects)
            frame == run_query(c, result)
        IN  /\ idx \in 1..Len(RenderHistory(ss.query_history))
            /\ session_state' = ss
            /\ conn' = c
            /\ edited_sql' = KeepEdit(ss, ss, edited_sql)
            /\ AppPage("rerun", ss, RunQueryMessages(c, result), 0, RunQueryCalls(c),
                       None, None, frame)
    /\ UNCHANGED <<user_question, generated_for, password, inputs>>

Next ==
    \/ ClickLogin
    \/ ClickLogout
    \/ TypeQuestion
    \/ EditSql
    \/ ClickGenerate
    \/ ClickClearHistory
    \/ ClickRunQuery
    \/ ClickRerun

Spec == Init /\ [][Next]_vars

\* the same program in a session that fills the history
InitHistory == InitWith(HistoryInputs)

SpecHistory == InitHistory /\ [][Next]_vars

\* extract_sql_from_response alone: generate_sql_with_gpt has received the
\* response text (event "response") and passes it to the function
InitExtract ==
    /\ session_state = SessionDefaults(SetLoggedIn(<<>>, TRUE))
    /\ user_question = <<"a">>
    /\ edited_sql = None
    /\ conn = "uncached"
    /\ generated_for = None
    /\ password = "secret123"
    /\ event = "response"
    /\ screen = "app"
    /\ messages = {}
    /\ llm_calls = 1
    /\ db_calls = 0
    /\ response_text \in ResponseTexts
    /\ sql_query = None
    /\ df = NoDf
    /\ history_view = <<>>
    /\ inputs = ReviewInputs

ExtractSql ==
    /\ event = "response"
    /\ event' = "extracted"
    /\ sql_query' = extract_sql_from_response(response_text)
    /\ UNCHANGED <<session_state, user_question, edited_sql, conn, generated_for,
                   password, screen, messages, llm_calls, db_calls, response_text,
                   df, history_view, inputs>>

SpecExtract == InitExtract /\ [][ExtractSql]_vars


----------------------------------------------------------------------------
(* Properties *)

\* the SQL text a Run Query click in the current state would execute
ShownSql == EditedSqlValue(SessionDefaults(session_state), edited_sql)

\* C1: a Generate SQL click with a question that differs from current_question
\* (the question taken as main compares and records it, stripped; an empty
\* question starts no generation) leaves generated_sql either absent or equal
\* to the SQL just generated for it, with current_question that question; and
\* in every state a displayed generated_sql was generated for the displayed
\* current_question.
C1_NoStaleSql ==
    /\ [][ (/\ event' = "generate"
            /\ QuestionGiven(user_question)
            /\ Strip(user_question) # current_question)
           => \/ generated_sql' = None
              \/ /\ llm_calls' = 1
                 /\ Truthy(sql_query')
                 /\ generated_sql' = sql_query'
                 /\ current_question' = Strip(user_question)
                 /\ generated_for' = Strip(user_question) ]_vars
    /\ [](Truthy(generated_sql) => generated_for = current_question)

\* a failed generation for a new question, after a query of the old one was run:
\* the old SQL is gone
C1_Witness ==
    /\ event = "generate"
    /\ llm_calls = 1
    /\ ~Truthy(sql_query)
    /\ generated_sql = None
    /\ query_history # <<>>

\* C2: the entry appended by a successful Run Query holds the SQL executed,
\* the number of rows returned, and as its question (surrounding whitespace
\* aside) the recorded current_question.  Stated for a recorded question
\* that is not blank.
C2_EntryIsCurrent ==
    [][ (event' = "run" /\ QuerySucceeded(df') /\ Truthy(current_question))
        => /\ Len(query_history') = Len(query_history) + 1
           /\ LET entry == query_history'[Len(query_history')]
              IN  /\ entry.sql = ShownSql
                  /\ entry.rows = df'
                  /\ Strip(entry.question) = current_question ]_vars

\* C3: logged_in becomes true only by a Login click whose password hashes to
\* the stored hash; a Login click with any other password (the empty one
\* included) leaves logged_in false and the login form on the page; Logout
\* sets logged_in false.
C3_LoginGate ==
    [][ /\ (~logged_in /\ logged_in')
            => (event' = "login" /\ Hash(password') = HASHED_PASSWORD)
        /\ (event' = "login" /\ Hash(password') # HASHED_PASSWORD)
            => (~logged_in' /\ screen' = "login")
        /\ (event' = "logout") => ~logged_in' ]_vars

\* a wrong password submitted after a logout
C3_Witness ==
    /\ event = "login"
    /\ password = "wrong"
    /\ ~logged_in
    /\ screen = "login"
    /\ HasKey(session_state, "query_history")

\* C4: a run that starts logged out calls neither the LLM nor the database
\* and leaves generated_sql, current_question and query_history as they are;
\* unless it logs in, it leaves the whole session state as it is.
C4_GateProtects ==
    [][ ~logged_in
        => /\ llm_calls' = 0
           /\ db_calls' = 0
           /\ conn' = conn
           /\ generated_sql' = generated_sql
           /\ current_question' = current_question
           /\ query_history' = query_history
           /\ (~logged_in' => session_state' = session_state) ]_vars

\* a refused Login click after a logout, with SQL and history in the session
C4_Witness ==
    /\ event = "login"
    /\ ~logged_in
    /\ Truthy(generated_sql)
    /\ query_history # <<>>

\* C5: a Run Query or Re-run that fails leaves query_history, generated_sql
\* and current_question unchanged; a Generate SQL that fails leaves
\* query_history unchanged.
C5_FailureKeepsState ==
    [][ /\ (event' \in {"run", "rerun"} /\ df' = NoDf)
            => /\ query_history' = query_history
               /\ generated_sql' = generated_sql
               /\ current_question' = current_question
        /\ (event' = "generate" /\ ~Truthy(sql_query'))
            => query_history' = query_history ]_vars

\* a Run Query the database rejected, with an entry already in the history
C5_Witness ==
    /\ event = "run"
    /\ df = NoDf
    /\ "query_error" \in messages
    /\ query_history # <<>>
    /\ Truthy(generated_sql)

\* C6: a generation attempt that yields no SQL (the call raised, or the
\* response cleaned up to nothing) made one call and shows an error message.
\* Stated for a question that is not blank.
C6_FailureSurfaced ==
    (/\ event = "generate"
     /\ Strip(user_question) # <<>>
     /\ llm_calls = 1
     /\ ~Truthy(sql_query))
        => "gemini_error" \in messages

\* C7: the history list shows the last min(5, n) entries of query_history,
\* most recent first.
C7_HistoryView ==
    screen = "app"
        => LET n == Len(query_history)
           IN  /\ Len(history_view) = IF n < 5 THEN n ELSE 5
               /\ \A i \in 1..Len(history_view) : history_view[i] = query_history[n - i + 1]

\* six executions, five listed, the list not all alike
C7_Witness ==
    /\ screen = "app"
    /\ Len(query_history) = 6
    /\ Len(history_view) = 5
    /\ history_view[1] # history_view[5]
    /\ query_history[1] # query_history[2]

\* C8: Clear History empties query_history and the list shown; Generate SQL,
\* Logout, Login, Re-run and typing leave query_history unchanged; Run Query
\* leaves it unchanged or appends one entry at its end.
C8_HistoryFrame ==
    [][ /\ (event' = "clear") => (query_history' = <<>> /\ history_view' = <<>>)
        /\ (event' \in {"generate", "logout", "login", "rerun", "type", "edit"})
            => query_history' = query_history
        /\ (event' = "run")
            => \/ query_history' = query_history
               \/ /\ Len(query_history') = Len(query_history) + 1
                  /\ SubSeq(query_history', 1, Len(query_history)) = query_history ]_vars

\* a second, different entry appended by Run Query
C8_Witness ==
    /\ event = "run"
    /\ QuerySucceeded(df)
    /\ Len(query_history) = 2
    /\ query_history[1] # query_history[2]

\* the text has an opening ```sql fence (in either case) and a closing fence after it
HasFencedBlock(t) ==
    \E i \in 1..Len(t) :
        /\ LiteralAt(t, i, OpenFence)
        /\ \E j \in (i + Len(OpenFence))..Len(t) : LiteralAt(t, j, CloseFence)

\* the text between the first opening fence and the closing fence that follows it, trimmed
InnerContent(t) ==
    LET i == CHOOSE a \in 1..Len(t) :
                /\ LiteralAt(t, a, OpenFence)
                /\ \A b \in 1..(a - 1) : ~LiteralAt(t, b, OpenFence)
        from == i + Len(OpenFence)
        j == CHOOSE a \in from..Len(t) :
                /\ LiteralAt(t, a, CloseFence)
                /\ \A b \in from..(a - 1) : ~LiteralAt(t, b, CloseFence)
    IN  Strip(SubSeq(t, from, j - 1))

ContainsFence(t) == \E i \in 1..Len(t) : LiteralAt(t, i, CloseFence)

\* C9: for a response text that has a ```sql fenced block, the extracted text
\* holds no fence marker and is the content between the fences, trimmed.
C9_ExtractsInner ==
    (event = "extracted" /\ HasFencedBlock(response_text))
        => /\ sql_query = InnerContent(response_text)
           /\ ~ContainsFence(sql_query)

\* C10: a Generate SQL click with an empty or whitespace-only question calls
\* no LLM and leaves generated_sql and current_question unchanged.
C10_BlankRejected ==
    [][ (event' = "generate" /\ Strip(user_question) = <<>>)
        => /\ llm_calls' = 0
           /\ generated_sql' = generated_sql
           /\ current_question' = current_question ]_vars

============================================================================
